---- MODULE Spec2Model ----
(***************************************************************************)
(* A model of src/shell.py: the read loop (main), the pipeline splitter,   *)
(* the redirection resolver, the process orchestrator (run_command and     *)
(* run_pipeline), the background reaper and the cd built-in.               *)
(*                                                                         *)
(* The shell process is one sequential process whose position is pc.  Its  *)
(* children live in the process table procs; each child runs concurrently  *)
(* with the shell.  A step of the shell is the code between two system     *)
(* calls that can block or fail (input, fork, waitpid).                    *)
(*                                                                         *)
(* A line is modelled after tokenization, as its sequence of words.        *)
(* File descriptors of pipes are numbered: pipe k has the read end 2k-1    *)
(* and the write end 2k; 0 stands for None (and, for a child's standard    *)
(* input or output, for "not a pipe").                                     *)
(* A wait status is the integer os.waitpid returns: exit code c is c*256,  *)
(* death by signal s is s.                                                 *)
(***************************************************************************)
EXTENDS Integers, Sequences, FiniteSets, TLC

\* ---------------------------------------------------------------- bounds

\* Number of words on the shell's standard input, over all its lines (blank
\* lines are free).
MaxInput == 5
\* Number of process identifiers: a pid is given once, and fork fails with
\* EAGAIN when none is left.
MaxProcs == 3
\* Number of pipes the system can hold open at once (os.pipe fails beyond).
MaxPipes == 2

\* ----------------------------------------------------------------- words

\* "a" stands for every word that is not an operator: a command name, an
\* argument or a file name.  What the file system answers for it (found or
\* not, opened or not) and whether it holds a NUL byte, which os.access,
\* os.open and os.execve refuse with ValueError, is drawn where it is used.
Words == {"|", "<", ">", "&", "a"}

\* The lines of the model: every sequence of at most MaxInput words in which
\* "&" stands at the end only (elsewhere main treats it as it treats "a").
Lines ==
  {line \in UNION {[1..len -> Words] : len \in 0..MaxInput} :
     \A j \in 1..Len(line) : line[j] = "&" => j = Len(line)}

None == "None"

\* Where the line holds a word with a NUL byte ("": nowhere).
NulPlaces == {"", "infile", "outfile", "prog", "arg"}

Range(s) == {s[j] : j \in 1..Len(s)}

\* ------------------------------------------------- parse_redirections

\* A resolver in which the first file name given for an operator stays.
KeepFirstPath(old, new) == IF old = None THEN new ELSE old

\* Lines 91 and 96: the assignment overwrites the path captured before.
KeepPath(old, new) == new

RECURSIVE ParseFrom(_, _, _, _, _)
ParseFrom(tokens, j, argv, infile, outfile) ==
  IF j > Len(tokens)
  THEN [err |-> "", argv |-> argv, infile |-> infile, outfile |-> outfile]
  ELSE IF tokens[j] = "<"
  THEN IF j + 1 > Len(tokens)
       THEN [err |-> "missing file name after <", argv |-> <<>>,
             infile |-> None, outfile |-> None]
       ELSE ParseFrom(tokens, j + 2, argv, KeepPath(infile, tokens[j + 1]),
                      outfile)
  ELSE IF tokens[j] = ">"
  THEN IF j + 1 > Len(tokens)
       THEN [err |-> "missing file name after >", argv |-> <<>>,
             infile |-> None, outfile |-> None]
       ELSE ParseFrom(tokens, j + 2, argv, infile,
                      KeepPath(outfile, tokens[j + 1]))
  ELSE ParseFrom(tokens, j + 1, Append(argv, tokens[j]), infile, outfile)

parse_redirections(tokens) == ParseFrom(tokens, 1, <<>>, None, None)

\* ------------------------------------------------------ split_pipeline

\* split_pipeline without its check for an empty segment.
NeverEmptySegment(cur) == FALSE

\* The check `if not cur` that split_pipeline makes at a "|" and at the end.
EmptySegment(cur) == cur = <<>>

RECURSIVE SplitFrom(_, _, _, _)
SplitFrom(tokens, j, segs, cur) ==
  IF j > Len(tokens)
  THEN IF EmptySegment(cur)
       THEN [err |-> "missing command after |", segs |-> <<>>]
       ELSE [err |-> "", segs |-> Append(segs, cur)]
  ELSE IF tokens[j] = "|"
  THEN IF EmptySegment(cur)
       THEN [err |-> "missing command before |", segs |-> <<>>]
       ELSE SplitFrom(tokens, j + 1, Append(segs, cur), <<>>)
  ELSE SplitFrom(tokens, j + 1, segs, Append(cur, tokens[j]))

split_pipeline(tokens) == SplitFrom(tokens, 1, <<>>, <<>>)

\* --------------------------------------------------------------- state

VARIABLES
  pc,           \* the shell's position: "reap", "read", "run_command",
                \* "cmd_wait", "run_pipeline", "wait", "done", "crashed"
  segments,     \* run_pipeline: its argument
  i,            \* run_pipeline: the loop index (0-based, as in the source)
  pids,         \* run_pipeline: pids; run_command: <<pid>>
  pipes,        \* run_pipeline: the pipes os.pipe gave it, in order
  prev_read,    \* run_pipeline: prev_read (0 is None)
  background,   \* the background flag of the line being run
  cmd,          \* run_command: argv, infile, outfile
  waited,       \* run_pipeline: number of pids already waited for
  last_status,  \* the status the waits left
  fds,          \* the pipe descriptors open in the shell process
  procs,        \* the process table: the shell's children
  nforked,      \* processes created for the line being run
  msg,          \* the message printed for the line being run ("" is none)
  call,         \* the routine main dispatched the line to ("" is none)
  unread,       \* the number of words left on standard input
  firstDone,    \* the first child of the line being run that terminated
  exitcode,     \* the number in "Program terminated with exit code N."
  cwd,          \* the real working directory
  PWD,          \* os.environ PWD
  HOME          \* os.environ HOME

procVars == <<procs, fds>>
jobVars == <<segments, i, pids, pipes, prev_read, background, cmd, waited,
             last_status, nforked, msg, call, firstDone, exitcode>>
cdVars == <<cwd, PWD, HOME>>
vars == <<pc, unread, segments, i, pids, pipes, prev_read, background, cmd, waited,
          last_status, fds, procs, nforked, msg, call, firstDone,
          exitcode, cwd, PWD, HOME>>

Pids == 1..MaxProcs
Pipes == 1..MaxPipes
ReadEnd(k) == 2 * k - 1
WriteEnd(k) == 2 * k

NoCmd == [argv |-> <<>>, infile |-> None, outfile |-> None]

FreeProc ==
  [st |-> "free", status |-> 0, fds |-> {}, in |-> 0, out |-> 0,
   via |-> "", infile |-> None, outfile |-> None,
   prev_read |-> 0, r |-> 0, w |-> 0]

Alive(p) == procs[p].st \in {"forked", "running", "escaped"}
Zombie(p) == procs[p].st = "zombie"
Child(p) == procs[p].st # "free"

\* The descriptors process p holds on pipes.
Held(p) ==
  IF Alive(p) THEN (procs[p].fds \cup {procs[p].in, procs[p].out}) \ {0}
  ELSE {}

ShellFds == IF pc \in {"done", "crashed"} THEN {} ELSE fds

PipeFree(k) ==
  /\ {ReadEnd(k), WriteEnd(k)} \cap ShellFds = {}
  /\ \A p \in Pids : {ReadEnd(k), WriteEnd(k)} \cap Held(p) = {}

WaitExit(code) == code * 256

\* ------------------------------------------------------------ children

Exited(status) ==
  [FreeProc EXCEPT !.st = "zombie", !.status = status]

\* The descriptors os.pipe returns are not inheritable: of the pipe ends in
\* open, execve keeps none.  What dup2 put on descriptors 0 and 1 stays.
CloseOnExec(open) == {}

Executing(c, in, out, open) ==
  [FreeProc EXCEPT !.st = "running", !.fds = CloseOnExec(open),
                   !.in = in, !.out = out]

\* A child in which an exception other than OSError left run_pipeline: main
\* catches the ValueError and goes on with its loop, in the child.
InReadLoop(c, in, out, open) ==
  [FreeProc EXCEPT !.st = "escaped", !.fds = open, !.in = in, !.out = out]

\* The child's branch of run_pipeline, lines 149-188, from the fork to exec
\* or exit.  openIn, openOut, found and execOk are what the file system
\* answers, nul is the place of a word with a NUL byte: a file name can hold
\* one when it is the word "a", not when it is an operator taken as a name.
PipelineChild(c, openIn, openOut, found, execOk, nul) ==
  LET in1 == IF c.prev_read # 0 THEN c.prev_read ELSE 0
      out1 == IF c.w # 0 THEN c.w ELSE 0
      in2 == IF c.infile # None THEN 0 ELSE in1
      out2 == IF c.outfile # None THEN 0 ELSE out1
      closed == c.fds \ {c.prev_read, c.r, c.w}
  IN IF c.infile = "a" /\ nul = "infile"
       THEN InReadLoop(c, in1, out1, c.fds)
     ELSE IF c.infile # None /\ ~openIn
       THEN Exited(WaitExit(1))
     ELSE IF c.outfile = "a" /\ nul = "outfile"
       THEN InReadLoop(c, in2, out1, c.fds)
     ELSE IF c.outfile # None /\ ~openOut
       THEN Exited(WaitExit(1))
     ELSE IF nul = "prog"
       THEN InReadLoop(c, in2, out2, closed)
     ELSE IF ~found
       THEN Exited(WaitExit(127))
     ELSE IF nul = "arg"
       THEN InReadLoop(c, in2, out2, closed)
     ELSE IF ~execOk
       THEN Exited(WaitExit(1))
     ELSE Executing(c, in2, out2, closed)

\* The child's branch of run_command, lines 49-64.  A ValueError is caught
\* nowhere: the interpreter prints the traceback and exits with code 1.
CommandChild(c, openIn, openOut, execOk, nul) ==
  IF c.infile # None /\ ((c.infile = "a" /\ nul = "infile") \/ ~openIn)
    THEN Exited(WaitExit(1))
  ELSE IF c.outfile # None /\ ((c.outfile = "a" /\ nul = "outfile") \/ ~openOut)
    THEN Exited(WaitExit(1))
  ELSE IF nul = "arg" \/ ~execOk
    THEN Exited(WaitExit(1))
  ELSE Executing(c, 0, 0, c.fds)

\* The children are followed for as long as the shell lives.
ShellLives == pc \notin {"done", "crashed"}

NoteDone(p) ==
  firstDone' = IF firstDone = 0 /\ p \in Range(pids) THEN p ELSE firstDone

ChildSetup(p) ==
  /\ ShellLives
  /\ procs[p].st = "forked"
  /\ \E openIn, openOut, found, execOk \in BOOLEAN, nul \in NulPlaces :
       LET c == procs[p]
           d == IF c.via = "pipe"
                THEN PipelineChild(c, openIn, openOut, found, execOk, nul)
                ELSE CommandChild(c, openIn, openOut, execOk, nul)
       IN /\ procs' = [procs EXCEPT ![p] = d]
          /\ IF d.st = "zombie" THEN NoteDone(p) ELSE firstDone' = firstDone
  /\ UNCHANGED <<pc, unread, segments, i, pids, pipes, prev_read, background, cmd, waited,
                 last_status, fds, nforked, msg, call, exitcode, cdVars>>

\* The statuses a program that was exec'ed ends with: exit 0, or SIGKILL.
ProgStatuses == {0, 9}

ChildExit(p) ==
  /\ ShellLives
  /\ procs[p].st = "running"
  /\ \E status \in ProgStatuses : procs' = [procs EXCEPT ![p] = Exited(status)]
  /\ NoteDone(p)
  /\ UNCHANGED <<pc, unread, segments, i, pids, pipes, prev_read, background, cmd, waited,
                 last_status, fds, nforked, msg, call, exitcode, cdVars>>

\* The child's own read loop ends (end of input, or "exit"): status 0.
EscapedExit(p) ==
  /\ ShellLives
  /\ procs[p].st = "escaped"
  /\ procs' = [procs EXCEPT ![p] = Exited(0)]
  /\ NoteDone(p)
  /\ UNCHANGED <<pc, unread, segments, i, pids, pipes, prev_read, background, cmd, waited,
                 last_status, fds, nforked, msg, call, exitcode, cdVars>>

\* ------------------------------------------------------- reap_background

\* A reaper that returns without calling waitpid.
NeverCollectible == FALSE

\* A reaper that asks for its first child only: waitpid(1, WNOHANG).
FirstChildCollectible == Zombie(1)

\* waitpid(-1, WNOHANG) has a terminated child to return.
Collectible == \E p \in Pids : Zombie(p)

Reaped(p) == [FreeProc EXCEPT !.st = "reaped", !.status = procs[p].status]

\* One turn of the loop in which waitpid returned a pid.
ReapBackgroundCollect ==
  /\ pc = "reap"
  /\ \E p \in Pids :
       /\ Zombie(p)
       /\ procs' = [procs EXCEPT ![p] = Reaped(p)]
  /\ UNCHANGED <<pc, unread, jobVars, fds, cdVars>>

\* waitpid returned 0 or raised ChildProcessError: reap_background returns
\* and main goes on to input().  What the previous line left in the locals
\* and on the terminal is forgotten here.
ReapBackgroundReturn ==
  /\ pc = "reap"
  /\ ~Collectible
  /\ pc' = "read"
  /\ segments' = <<>> /\ i' = 0 /\ pids' = <<>> /\ prev_read' = 0
  /\ pipes' = <<>>
  /\ background' = FALSE /\ cmd' = NoCmd /\ waited' = 0 /\ last_status' = 0
  /\ nforked' = 0 /\ msg' = "" /\ call' = "" /\ firstDone' = 0
  /\ exitcode' = 0
  /\ procs' = [p \in Pids |->
                 IF procs[p].st = "reaped" THEN [FreeProc EXCEPT !.st = "reaped"]
                 ELSE procs[p]]
  /\ UNCHANGED <<unread, fds, cdVars>>

\* ------------------------------------------------------------------ main

\* lines 266-271: a last token "&" is the background marker.
Background(line) == Len(line) > 0 /\ line[Len(line)] = "&"

Tokens(line) ==
  IF Background(line) THEN SubSeq(line, 1, Len(line) - 1) ELSE line

\* lines 262-301: where main sends a line, and with what.
Dispatch(line) ==
  LET tokens == Tokens(line)
      sp == split_pipeline(tokens)
      pr == parse_redirections(tokens)
      base == [kind |-> "continue", background |-> Background(line),
               err |-> "", segments |-> <<>>, cmd |-> NoCmd]
  IN IF tokens = <<>> THEN base
     ELSE IF "|" \in Range(tokens)
       THEN IF sp.err # ""
            THEN [base EXCEPT !.kind = "split_pipeline", !.err = sp.err]
            ELSE [base EXCEPT !.kind = "run_pipeline", !.segments = sp.segs]
     ELSE IF pr.err # ""
       THEN [base EXCEPT !.kind = "parse_redirections", !.err = pr.err]
     ELSE IF pr.argv = <<>> THEN base
     ELSE [base EXCEPT !.kind = IF pr.argv[1] = "cd" THEN "cd"
                                ELSE "run_command",
                       !.cmd = [argv |-> pr.argv, infile |-> pr.infile,
                                outfile |-> pr.outfile]]

\* Dispatch, tabulated over the lines of the model (@@ makes TLC compute
\* the table once instead of at every use).
DispatchOf == [line \in Lines |-> Dispatch(line)] @@ <<>>

\* The lines that standard input can still deliver when n words are left.
Readable ==
  [n \in 0..MaxInput |-> {line \in Lines : Len(line) <= n}] @@ <<>>

\* line 248: input() returns a line.
Input(line) ==
  /\ pc = "read"
  /\ Len(line) <= unread
  /\ unread' = unread - Len(line)

\* End of input, or the line "exit".
MainExit ==
  /\ pc = "read"
  /\ pc' = "done"
  /\ UNCHANGED <<unread, jobVars, procVars, cdVars>>

\* A line main has nothing to run for: blank, a lone "&", or redirections
\* only.
MainContinue(line) ==
  /\ Input(line)
  /\ DispatchOf[line].kind = "continue"
  /\ pc' = "reap"
  /\ UNCHANGED <<jobVars, procVars, cdVars>>

\* split_pipeline (line 275) or parse_redirections (line 283) raised
\* ValueError: main prints the syntax error and continues.
MainSyntaxError(line) ==
  /\ Input(line)
  /\ DispatchOf[line].kind \in {"split_pipeline", "parse_redirections"}
  /\ msg' = DispatchOf[line].err
  /\ call' = DispatchOf[line].kind
  /\ pc' = "reap"
  /\ background' = DispatchOf[line].background
  /\ UNCHANGED <<segments, i, pids, pipes, prev_read, cmd, waited, last_status,
                 nforked, firstDone, exitcode, procVars, cdVars>>

\* line 276: main calls run_pipeline on the segments.
MainRunPipeline(line) ==
  /\ Input(line)
  /\ DispatchOf[line].kind = "run_pipeline"
  /\ pc' = "run_pipeline"
  /\ segments' = DispatchOf[line].segments
  /\ i' = 0 /\ pids' = <<>> /\ prev_read' = 0 /\ pipes' = <<>>
  /\ background' = DispatchOf[line].background
  /\ call' = "run_pipeline"
  /\ UNCHANGED <<cmd, waited, last_status, nforked, msg, firstDone,
                 exitcode, procVars, cdVars>>

\* line 301 and run_command's lines 41-45: find_executable in the shell
\* itself, before any fork.  found is what the file system answers; nul
\* says that the command name holds a NUL byte, and then os.access raises a
\* ValueError that nothing catches.
MainRunCommand(line) ==
  /\ Input(line)
  /\ DispatchOf[line].kind = "run_command"
  /\ call' = "run_command"
  /\ background' = DispatchOf[line].background
  /\ cmd' = DispatchOf[line].cmd
  /\ \E found, nul \in BOOLEAN :
       IF nul THEN pc' = "crashed" /\ msg' = "ValueError"
       ELSE IF found THEN pc' = "run_command" /\ msg' = msg
       ELSE pc' = "reap" /\ msg' = "command not found"
  /\ UNCHANGED <<segments, i, pids, pipes, prev_read, waited, last_status,
                 nforked, firstDone, exitcode, procVars, cdVars>>

\* ---------------------------------------------------- fork, pipe, status

HasFreePid == \E p \in Pids : ~Child(p)
FreePid == CHOOSE p \in Pids : ~Child(p) /\ \A q \in Pids : q < p => Child(q)

HasFreePipe == \E k \in Pipes : PipeFree(k)
FreePipe ==
  CHOOSE k \in Pipes : PipeFree(k) /\ \A l \in Pipes : l < k => ~PipeFree(l)

WIFEXITED(status) == status % 128 = 0
WEXITSTATUS(status) == (status \div 256) % 256
WIFSIGNALED(status) == status % 128 \in 1..126
WTERMSIG(status) == status % 128

\* A report that looks at the exit code only.
ReportExitCodeOnly(status) == WEXITSTATUS(status)

\* lines 70-77 and 214-220: the number printed, 0 when nothing is printed.
ReportCode(status) ==
  IF WIFEXITED(status) THEN WEXITSTATUS(status)
  ELSE IF WIFSIGNALED(status) THEN 128 + WTERMSIG(status)
  ELSE 0

ReportMsg(status) ==
  IF ReportCode(status) # 0 THEN "Program terminated with exit code" ELSE ""

\* ----------------------------------------------------------- run_command

\* lines 67-68: the parent's branch after the fork.
CommandAfterFork(bg) == IF bg THEN "reap" ELSE "cmd_wait"

\* line 47, fork succeeds.
RunCommandFork ==
  /\ pc = "run_command"
  /\ HasFreePid
  /\ procs' = [procs EXCEPT ![FreePid] =
                 [FreeProc EXCEPT !.st = "forked", !.via = "cmd",
                                  !.fds = fds, !.infile = cmd.infile,
                                  !.outfile = cmd.outfile]]
  /\ pids' = <<FreePid>>
  /\ nforked' = nforked + 1
  /\ pc' = CommandAfterFork(background)
  /\ UNCHANGED <<unread, segments, i, pipes, prev_read, background, cmd,
                 waited, last_status, msg, call, firstDone, exitcode, fds,
                 cdVars>>

\* line 47, fork raises OSError: nothing catches it, the shell ends.
RunCommandOSError ==
  /\ pc = "run_command"
  /\ pc' = "crashed"
  /\ msg' = "OSError"
  /\ UNCHANGED <<unread, segments, i, pids, pipes, prev_read, background, cmd, waited,
                 last_status, nforked, call, firstDone, exitcode,
                 procVars, cdVars>>

\* lines 69-77.
RunCommandWait ==
  /\ pc = "cmd_wait"
  /\ Zombie(pids[1])
  /\ procs' = [procs EXCEPT ![pids[1]] = Reaped(pids[1])]
  /\ last_status' = procs[pids[1]].status
  /\ waited' = 1
  /\ msg' = ReportMsg(procs[pids[1]].status)
  /\ exitcode' = ReportCode(procs[pids[1]].status)
  /\ pc' = "reap"
  /\ UNCHANGED <<unread, segments, i, pids, pipes, prev_read, background, cmd, nforked,
                 call, firstDone, fds, cdVars>>

\* ---------------------------------------------------------- run_pipeline

\* lines 131-138: what the loop raises for segment i of n (0-based), "" if
\* it raises nothing.
SegmentError(seg, idx, n) ==
  LET pr == parse_redirections(seg) IN
    IF pr.err # "" THEN pr.err
    ELSE IF pr.argv = <<>> THEN "empty command in pipeline"
    ELSE IF idx # 0 /\ pr.infile # None
      THEN "input redirection only allowed on first command of pipeline"
    ELSE IF idx # n - 1 /\ pr.outfile # None
      THEN "output redirection only allowed on last command of pipeline"
    ELSE ""

\* run_pipeline without its test of the background flag.
AlwaysWait(bg) == "wait"

\* lines 206-207: where run_pipeline goes after the loop.
PipelineAfterLoop(bg) == IF bg THEN "reap" ELSE "wait"

\* A wait loop that keeps the first status that is not 0.
KeepFirstFailure(old, status) == IF old # 0 THEN old ELSE status

\* line 212: the status the wait loop keeps.
KeepStatus(old, status) == status

\* One turn of the loop, lines 131-138, that raises ValueError: main prints
\* the syntax error and continues.  Nothing is closed on the way out.
RunPipelineRaise ==
  /\ pc = "run_pipeline"
  /\ i < Len(segments)
  /\ SegmentError(segments[i + 1], i, Len(segments)) # ""
  /\ msg' = SegmentError(segments[i + 1], i, Len(segments))
  /\ pc' = "reap"
  /\ UNCHANGED <<unread, segments, i, pids, pipes, prev_read, background, cmd, waited,
                 last_status, nforked, call, firstDone, exitcode,
                 procVars, cdVars>>

\* A parent that closes prev_read after the fork and forgets w.
ParentClosesRead(prev, w) == {prev}

\* Lines 195-198: the descriptors the parent closes after the fork.
ParentCloses(prev, w) == {prev, w}

\* One turn of the loop, lines 131-200, in which os.pipe and os.fork
\* succeed, and lines 203-207 after the last turn.
RunPipelineSpawn ==
  /\ pc = "run_pipeline"
  /\ i < Len(segments)
  /\ SegmentError(segments[i + 1], i, Len(segments)) = ""
  /\ i # Len(segments) - 1 => HasFreePipe
  /\ HasFreePid
  /\ LET n == Len(segments)
         pr == parse_redirections(segments[i + 1])
         r == IF i # n - 1 THEN ReadEnd(FreePipe) ELSE 0
         w == IF i # n - 1 THEN WriteEnd(FreePipe) ELSE 0
         open == (fds \cup {r, w}) \ {0}
         kept == open \ ParentCloses(prev_read, w)
     IN /\ procs' = [procs EXCEPT ![FreePid] =
                       [FreeProc EXCEPT !.st = "forked", !.via = "pipe",
                                        !.fds = open, !.infile = pr.infile,
                                        !.outfile = pr.outfile,
                                        !.prev_read = prev_read,
                                        !.r = r, !.w = w]]
        /\ pids' = Append(pids, FreePid)
        /\ pipes' = IF i # n - 1 THEN Append(pipes, FreePipe) ELSE pipes
        /\ nforked' = nforked + 1
        /\ prev_read' = r
        /\ i' = i + 1
        /\ IF i + 1 = n
           THEN /\ fds' = kept \ {r}
                /\ pc' = PipelineAfterLoop(background)
           ELSE /\ fds' = kept
                /\ pc' = "run_pipeline"
  /\ UNCHANGED <<unread, segments, background, cmd, waited, last_status, msg, call,
                 firstDone, exitcode, cdVars>>

\* One turn of the loop in which os.pipe (line 142) or os.fork (line 146)
\* raises OSError: nothing catches it, the shell ends.  After a failed fork
\* the pipe just made is open as well.
RunPipelineOSError ==
  /\ pc = "run_pipeline"
  /\ i < Len(segments)
  /\ SegmentError(segments[i + 1], i, Len(segments)) = ""
  /\ \/ /\ i # Len(segments) - 1
        /\ fds' = fds
        /\ pipes' = pipes
     \/ /\ i # Len(segments) - 1
        /\ HasFreePipe
        /\ fds' = fds \cup {ReadEnd(FreePipe), WriteEnd(FreePipe)}
        /\ pipes' = Append(pipes, FreePipe)
     \/ /\ i = Len(segments) - 1
        /\ fds' = fds
        /\ pipes' = pipes
  /\ pc' = "crashed"
  /\ msg' = "OSError"
  /\ UNCHANGED <<unread, segments, i, pids, prev_read, background, cmd, waited,
                 last_status, nforked, call, firstDone, exitcode, procs,
                 cdVars>>

\* lines 209-220: one waitpid of the wait loop, and the report after the
\* last one.
RunPipelineWait ==
  /\ pc = "wait"
  /\ waited < Len(pids)
  /\ Zombie(pids[waited + 1])
  /\ LET pid == pids[waited + 1]
         status == KeepStatus(last_status, procs[pid].status)
     IN /\ procs' = [procs EXCEPT ![pid] = Reaped(pid)]
        /\ last_status' = status
        /\ waited' = waited + 1
        /\ IF waited + 1 = Len(pids)
           THEN /\ msg' = ReportMsg(status)
                /\ exitcode' = ReportCode(status)
                /\ pc' = "reap"
           ELSE UNCHANGED <<msg, exitcode, pc>>
  /\ UNCHANGED <<unread, segments, i, pids, pipes, prev_read, background, cmd, nforked,
                 call, firstDone, fds, cdVars>>

\* ------------------------------------------------------------------- cd

\* The file system of the model: the directories /, /d and /d/d, no symbolic
\* link, and no entry named x.
Dirs == {<<>>, <<"d">>, <<"d", "d">>}

\* The arguments given to cd, and the path each one spells.
CdTargets == {"/", "/d", "/x", "d", "x", "..", "d/..", "x/..", "../d"}

PathOf(word) ==
  CASE word = "/" -> [abs |-> TRUE, comps |-> <<>>]
    [] word = "/d" -> [abs |-> TRUE, comps |-> <<"d">>]
    [] word = "/x" -> [abs |-> TRUE, comps |-> <<"x">>]
    [] word = "d" -> [abs |-> FALSE, comps |-> <<"d">>]
    [] word = "x" -> [abs |-> FALSE, comps |-> <<"x">>]
    [] word = ".." -> [abs |-> FALSE, comps |-> <<"..">>]
    [] word = "d/.." -> [abs |-> FALSE, comps |-> <<"d", "..">>]
    [] word = "x/.." -> [abs |-> FALSE, comps |-> <<"x", "..">>]
    [] word = "../d" -> [abs |-> FALSE, comps |-> <<"..", "d">>]

\* The values of HOME: unset, an existing directory, a missing one.
HomeValues == {None, "/d", "/x"}

CdLines ==
  {<<"cd">>, <<"cd", "&">>}
    \cup {<<"cd", t>> : t \in CdTargets}
    \cup {<<"cd", t, "&">> : t \in CdTargets}

\* The kernel's walk from directory at along comps: the directory reached,
\* or <<"ENOENT">> as soon as a component names no directory.
RECURSIVE Walk(_, _)
Walk(at, comps) ==
  IF at \notin Dirs THEN <<"ENOENT">>
  ELSE IF comps = <<>> THEN at
  ELSE IF Head(comps) = ".."
    THEN Walk(IF at = <<>> THEN at ELSE SubSeq(at, 1, Len(at) - 1),
              Tail(comps))
  ELSE Walk(Append(at, Head(comps)), Tail(comps))

\* os.chdir(target) from the directory at.
chdir(at, target) ==
  Walk(IF PathOf(target).abs THEN <<>> ELSE at, PathOf(target).comps)

\* os.path.normpath of an absolute path: ".." removes the component before
\* it, and is dropped at the root; the file system is not consulted.
RECURSIVE NormFrom(_, _)
NormFrom(acc, comps) ==
  IF comps = <<>> THEN acc
  ELSE IF Head(comps) = ".."
    THEN NormFrom(IF acc = <<>> THEN acc ELSE SubSeq(acc, 1, Len(acc) - 1),
                  Tail(comps))
  ELSE NormFrom(Append(acc, Head(comps)), Tail(comps))

normpath(comps) == NormFrom(<<>>, comps)

\* PWD is unset, or holds an absolute path.
Unset == [set |-> FALSE, comps |-> <<>>]
Logical(comps) == [set |-> TRUE, comps |-> comps]

\* lines 231-239: the new value of PWD.  getcwd is what os.getcwd() returns
\* when the function is called; line 232 uses it when PWD is unset.
logical_pwd_update(target, getcwd) ==
  LET old == IF PWD.set THEN PWD.comps ELSE getcwd IN
    IF PathOf(target).abs THEN Logical(normpath(PathOf(target).comps))
    ELSE Logical(normpath(old \o PathOf(target).comps))

\* line 293: the argument, or HOME, or "/".
CdTarget(argv) ==
  IF Len(argv) > 1 THEN argv[2] ELSE IF HOME # None THEN HOME ELSE "/"

\* A cd that updates PWD before it knows that os.chdir succeeded.
PwdBeforeChdir(ok, target) == logical_pwd_update(target, cwd)

\* lines 294-298: PWD after the try block, ok saying that os.chdir raised no
\* OSError.  logical_pwd_update runs after os.chdir, in the new directory.
PwdAfterCd(ok, target) ==
  IF ok THEN logical_pwd_update(target, chdir(cwd, target)) ELSE PWD

\* lines 292-299: the built-in cd.
MainCd(line) ==
  /\ pc = "read"
  /\ Dispatch(line).kind = "cd"
  /\ LET target == CdTarget(Dispatch(line).cmd.argv)
         ok == chdir(cwd, target) \in Dirs
     IN /\ cwd' = IF ok THEN chdir(cwd, target) ELSE cwd
        /\ PWD' = PwdAfterCd(ok, target)
        /\ msg' = IF ok THEN "" ELSE "cd: OSError"
  /\ call' = "cd"
  /\ background' = Dispatch(line).background
  /\ pc' = "reap"
  /\ UNCHANGED <<unread, segments, i, pids, pipes, prev_read, cmd, waited,
                 last_status, nforked, firstDone, exitcode, procVars, HOME>>

\* ------------------------------------------------------- specification

NoJob ==
  /\ segments = <<>> /\ i = 0 /\ pids = <<>> /\ prev_read = 0
  /\ pipes = <<>>
  /\ background = FALSE /\ cmd = NoCmd /\ waited = 0 /\ last_status = 0
  /\ nforked = 0 /\ msg = "" /\ call = "" /\ firstDone = 0 /\ exitcode = 0

Init ==
  /\ pc = "reap"
  /\ unread = MaxInput
  /\ NoJob
  /\ fds = {}
  /\ procs = [p \in Pids |-> FreeProc]
  /\ cwd = <<>> /\ PWD = Unset /\ HOME = None

\* One pass of main's loop body on a line, up to the first fork.
MainStep(line) ==
  \/ MainContinue(line)
  \/ MainSyntaxError(line)
  \/ MainRunPipeline(line)
  \/ MainRunCommand(line)

Main ==
  \/ MainExit
  \/ \E line \in Readable[unread] : MainContinue(line)
  \/ \E line \in Readable[unread] : MainSyntaxError(line)
  \/ \E line \in Readable[unread] : MainRunPipeline(line)
  \/ \E line \in Readable[unread] : MainRunCommand(line)

Shell ==
  \/ ReapBackgroundCollect
  \/ ReapBackgroundReturn
  \/ RunCommandFork
  \/ RunCommandOSError
  \/ RunCommandWait
  \/ RunPipelineRaise
  \/ RunPipelineSpawn
  \/ RunPipelineOSError
  \/ RunPipelineWait

Children ==
  \/ \E p \in Pids : ChildSetup(p)
  \/ \E p \in Pids : ChildExit(p)
  \/ \E p \in Pids : EscapedExit(p)

Next == Main \/ Shell \/ Children

Spec == Init /\ [][Next]_vars

\* The shell is a running process: a step of it that does not wait for
\* input is taken once it stays possible.
LiveSpec == Init /\ [][Next]_vars /\ WF_vars(Shell)

\* The shell at a terminal on which only cd lines are typed, started in any
\* directory with any PWD and HOME.  It has no children.
CdInit ==
  /\ pc = "reap"
  /\ unread = 0
  /\ NoJob
  /\ fds = {}
  /\ procs = [p \in Pids |-> FreeProc]
  /\ cwd \in Dirs
  /\ PWD \in {Unset} \cup {Logical(d) : d \in Dirs}
  /\ HOME \in HomeValues

CdNext ==
  \/ ReapBackgroundReturn
  \/ MainExit
  \/ \E line \in CdLines : MainCd(line)

CdSpec == CdInit /\ [][CdNext]_vars

\* ---------------------------------------------------- commands as filters

\* Descriptor fd is open in the shell or in one of the processes.
Open(fd) == fd \in ShellFds \/ \E q \in Pids : fd \in Held(q)

\* A filter terminates once it reads end-of-input or its reader is gone.
\* Standard input that is no pipe (the terminal, a file) comes to an end;
\* a pipe is at end-of-input when no write end of it is open anywhere, and
\* has no reader when no read end of it is open anywhere.
CanFinish(p) ==
  \/ procs[p].in = 0
  \/ procs[p].in # 0 /\ ~Open(procs[p].in + 1)
  \/ procs[p].out # 0 /\ ~Open(procs[p].out - 1)

\* The end of a process that is a filter: of a program that was exec'ed, or
\* of a child in the read loop, which also ends at the end of its input.
FilterExit(p) == CanFinish(p) /\ (ChildExit(p) \/ EscapedExit(p))

FilterNext ==
  \/ Main
  \/ Shell
  \/ \E p \in Pids : ChildSetup(p)
  \/ \E p \in Pids : FilterExit(p)

\* The shell whose commands are filters.  The shell and every process are
\* scheduled: a step of one of them that stays possible is taken.
FilterSpec ==
  /\ Init /\ [][FilterNext]_vars
  /\ WF_vars(Shell)
  /\ \A p \in Pids : WF_vars(ChildSetup(p)) /\ WF_vars(FilterExit(p))

\* ------------------------------------------------------- split_cmdline

\* Number of characters of a line of text.
MaxChars == 5

SP == " "
DQ == "\""
SQ == "'"
BS == "\\"

\* The characters of the model: "a" stands for every character that is no
\* white space, quote, backslash or operator.
Chars == {"a", SP, DQ, SQ, BS, "|", ">", "&"}

\* A line of text is the sequence of its characters.
Texts == UNION {[1..n -> Chars] : n \in 0..MaxChars}

\* Lines 9-10, a quoted alternative of _TOKEN_RE whose opening quote q has
\* been matched: the position of the closing quote, 0 if there is no match.
\* Scanning from s[k], a backslash goes with the character after it, any
\* other character but q goes alone, and the first q closes.
RECURSIVE QuotedEnd(_, _, _)
QuotedEnd(s, k, q) ==
  IF k > Len(s) THEN 0
  ELSE IF s[k] = BS
    THEN IF k + 1 > Len(s) THEN 0 ELSE QuotedEnd(s, k + 2, q)
  ELSE IF s[k] = q THEN k
  ELSE QuotedEnd(s, k + 1, q)

\* Line 11, the alternative [^\s]+ matched from s[k]: the position of the
\* last character before white space or the end.
RECURSIVE UnquotedEnd(_, _)
UnquotedEnd(s, k) ==
  IF k + 1 <= Len(s) /\ s[k + 1] # SP THEN UnquotedEnd(s, k + 1) ELSE k

\* The group of _TOKEN_RE matched at s[j], which is no white space: the
\* alternatives are tried in their order.
TokenEnd(s, j) ==
  IF s[j] = DQ /\ QuotedEnd(s, j + 1, DQ) # 0 THEN QuotedEnd(s, j + 1, DQ)
  ELSE IF s[j] = SQ /\ QuotedEnd(s, j + 1, SQ) # 0
    THEN QuotedEnd(s, j + 1, SQ)
  ELSE UnquotedEnd(s, j)

\* Line 16: _TOKEN_RE.finditer(s), from position j on.
RECURSIVE FindTokens(_, _)
FindTokens(s, j) ==
  IF j > Len(s) THEN <<>>
  ELSE IF s[j] = SP THEN FindTokens(s, j + 1)
  ELSE <<SubSeq(s, j, TokenEnd(s, j))>> \o FindTokens(s, TokenEnd(s, j) + 1)

\* Lines 19-20.
StripQuotes(t) ==
  IF Len(t) >= 2 /\ \/ (t[1] = DQ /\ t[Len(t)] = DQ)
                    \/ (t[1] = SQ /\ t[Len(t)] = SQ)
  THEN SubSeq(t, 2, Len(t) - 1)
  ELSE t

\* str.replace of the two characters a b by the character c, left to right.
RECURSIVE Replace(_, _, _, _)
Replace(t, a, b, c) ==
  IF Len(t) < 2 THEN t
  ELSE IF t[1] = a /\ t[2] = b
    THEN <<c>> \o Replace(SubSeq(t, 3, Len(t)), a, b, c)
  ELSE <<t[1]>> \o Replace(Tail(t), a, b, c)

\* Line 22.
Unescape(t) ==
  Replace(Replace(Replace(t, BS, DQ, DQ), BS, SQ, SQ), BS, BS, BS)

split_cmdline(s) ==
  LET tokens == FindTokens(s, 1) IN
    [j \in 1..Len(tokens) |-> Unescape(StripQuotes(tokens[j]))]

\* The word of the model that a token is: itself when it is an operator by
\* main's and the parsers' comparisons (t == "|", "<", ">", and "&" for the
\* last token), "a" otherwise.
WordOf(t, last) ==
  IF t \in {<<"|">>, <<"<">>, <<">">>} THEN t[1]
  ELSE IF t = <<"&">> /\ last THEN "&"
  ELSE "a"

\* Line 262: the words main gets for the text s.
LineOfText(s) ==
  LET tokens == split_cmdline(s) IN
    [j \in 1..Len(tokens) |-> WordOf(tokens[j], j = Len(tokens))]

\* One pass of main's loop body on the text s, up to the call of run_command
\* or run_pipeline.
MainText(s) == MainStep(LineOfText(s))

TokMain ==
  \/ pc = "read" /\ \E s \in Texts : MainContinue(LineOfText(s))
  \/ pc = "read" /\ \E s \in Texts : MainSyntaxError(LineOfText(s))
  \/ pc = "read" /\ \E s \in Texts : MainRunPipeline(LineOfText(s))
  \/ pc = "read" /\ \E s \in Texts : MainRunCommand(LineOfText(s))

\* main alone, reading lines of text: what it does with each line is
\* followed up to the routine it calls.
TokNext ==
  \/ ReapBackgroundReturn
  \/ MainExit
  \/ TokMain

TokSpec == Init /\ [][TokNext]_vars

\* ------------------------------------------- parse_redirections alone

\* Number of words of a word sequence given to parse_redirections.
MaxWords == 4

\* The words of these sequences: the two operators and two other words.
ParseWords == {"<", ">", "a", "b"}

ParseInputs == UNION {[1..n -> ParseWords] : n \in 0..MaxWords}

\* A caller (line 131 or 283) is about to call parse_redirections on a word
\* sequence, held in segments[1].
ParseInit ==
  /\ pc = "parse"
  /\ unread = 0 /\ fds = {} /\ procs = [p \in Pids |-> FreeProc]
  /\ \E tokens \in ParseInputs : segments = <<tokens>>
  /\ i = 0 /\ pids = <<>> /\ pipes = <<>> /\ prev_read = 0
  /\ background = FALSE /\ cmd = NoCmd /\ waited = 0 /\ last_status = 0
  /\ nforked = 0 /\ msg = "" /\ call = "" /\ firstDone = 0 /\ exitcode = 0
  /\ cwd = <<>> /\ PWD = Unset /\ HOME = None

\* The call: cmd gets what is returned, msg the message of the ValueError.
ParseRedirections ==
  /\ pc = "parse"
  /\ LET pr == parse_redirections(segments[1]) IN
       /\ cmd' = [argv |-> pr.argv, infile |-> pr.infile,
                  outfile |-> pr.outfile]
       /\ msg' = pr.err
  /\ call' = "parse_redirections"
  /\ pc' = "parsed"
  /\ UNCHANGED <<unread, segments, i, pids, pipes, prev_read, background,
                 waited, last_status, nforked, firstDone, exitcode,
                 procVars, cdVars>>

ParseSpec == ParseInit /\ [][ParseRedirections]_vars

\* ------------------------------------------------- the status report

\* An exit code is one byte, and a signal number is at most 64.
MaxCode == 255
MaxSignal == 64

\* The wait statuses of a terminated child: exit with code c, or death by
\* signal s, with or without the core-dump flag 128.
Statuses ==
  {WaitExit(c) : c \in 0..MaxCode}
    \cup {s + core : s \in 1..MaxSignal, core \in {0, 128}}

\* The shell in the blocking wait of a foreground job whose processes have
\* all terminated, the last one with any status: a command (lines 69-77) or
\* a pipeline of two segments (lines 209-220).
StatusInit ==
  /\ unread = 0 /\ fds = {} /\ msg = "" /\ exitcode = 0
  /\ waited = 0 /\ last_status = 0 /\ prev_read = 0 /\ background = FALSE
  /\ firstDone = 1
  /\ cwd = <<>> /\ PWD = Unset /\ HOME = None
  /\ \E status \in Statuses, first \in ProgStatuses :
       \/ /\ pc = "cmd_wait" /\ call = "run_command"
          /\ cmd = [NoCmd EXCEPT !.argv = <<"a">>]
          /\ segments = <<>> /\ i = 0 /\ pids = <<1>> /\ pipes = <<>>
          /\ nforked = 1
          /\ procs = [p \in Pids |->
                        IF p = 1 THEN Exited(status) ELSE FreeProc]
       \/ /\ pc = "wait" /\ call = "run_pipeline" /\ cmd = NoCmd
          /\ segments = <<<<"a">>, <<"a">>>> /\ i = 2 /\ pids = <<1, 2>>
          /\ pipes = <<1>> /\ nforked = 2
          /\ procs = [p \in Pids |->
                        IF p = 1 THEN Exited(first)
                        ELSE IF p = 2 THEN Exited(status) ELSE FreeProc]

StatusNext ==
  \/ RunCommandWait
  \/ RunPipelineWait
  \/ ReapBackgroundReturn
  \/ MainExit

StatusSpec == StatusInit /\ [][StatusNext]_vars

\* ---------------------------------------------------------------- claims

\* run_pipeline ran its loop to the end.
Launched == call = "run_pipeline" /\ i = Len(segments) /\ segments # <<>>

\* run_pipeline, or run_command, is back in main's loop.
Returned == pc = "reap"

\* C1: when run_pipeline returns from a foreground pipeline of n segments
\* that it launched, n processes were created for it, one per segment, all n
\* were waited for, and the status left for the report is the one the
\* process of the last segment ended with, whichever process ended first.
C1_LastSegmentStatus ==
  (Returned /\ Launched /\ ~background) =>
    /\ nforked = Len(segments)
    /\ Len(pids) = Len(segments)
    /\ Cardinality(Range(pids)) = Len(segments)
    /\ waited = Len(segments)
    /\ \A p \in Range(pids) : procs[p].st = "reaped"
    /\ last_status = procs[pids[Len(pids)]].status
    /\ exitcode = ReportCode(procs[pids[Len(pids)]].status)

\* C1 witness: a foreground pipeline has returned whose last segment ended
\* first, with a status other than the first segment's.
C1_Witness ==
  /\ Returned /\ Launched /\ ~background
  /\ firstDone = pids[Len(pids)]
  /\ procs[pids[1]].status # procs[pids[Len(pids)]].status
  /\ last_status = 0

RedirectionErrors ==
  {"input redirection only allowed on first command of pipeline",
   "output redirection only allowed on last command of pipeline"}

\* C2 as claimed: when run_pipeline raises the error for a misplaced
\* redirection, no process has been forked for the pipeline.
C2_RejectedBeforeAnyFork ==
  msg \in RedirectionErrors => nforked = 0

\* C3 as claimed: once run_pipeline is left, by return or by the ValueError
\* that main catches, the shell holds no end of any pipe.
C3_NoDescriptorLeftOpen ==
  (call = "run_pipeline" /\ Returned) => fds = {}

\* C4 as claimed: when run_command is over it has created one process, as
\* run_pipeline does for one segment, and a command that was not found is
\* a child that ended with status 127.
C4_CommandLikeOneSegment ==
  (call = "run_command" /\ pc = "reap") =>
    /\ nforked = 1
    /\ msg = "command not found" => procs[pids[1]].status = WaitExit(127)

\* The line has an empty pipe segment: it starts or ends with "|" or has
\* two "|" in a row (the background marker set aside).
HasEmptySegment(line) ==
  LET tokens == Tokens(line) IN
    /\ tokens # <<>>
    /\ \/ tokens[1] = "|"
       \/ tokens[Len(tokens)] = "|"
       \/ \E j \in 1..(Len(tokens) - 1) : tokens[j] = "|" /\ tokens[j + 1] = "|"

EmptySegmentLines == {line \in Lines : HasEmptySegment(line)}

SplitErrors == {"missing command before |", "missing command after |"}

\* C5: main's pass over a line with an empty pipe segment ends with the
\* syntax error of split_pipeline, creates no process, and goes back to the
\* top of the read loop.
C5_EmptySegmentRejected ==
  [][pc = "read" =>
       \A line \in EmptySegmentLines :
         MainStep(line) =>
           /\ call' = "split_pipeline"
           /\ msg' \in SplitErrors
           /\ nforked' = 0
           /\ procs' = procs
           /\ pc' = "reap"]_vars

\* C5 witness: the syntax error of split_pipeline was printed, the shell is
\* at the top of its loop and has forked nothing.
C5_Witness ==
  /\ call = "split_pipeline" /\ msg = "missing command before |"
  /\ pc = "reap" /\ nforked = 0

\* C6 as claimed: after a failure of fork or pipe the shell is still in its
\* read loop.
C6_ShellSurvivesForkFailure ==
  msg = "OSError" => pc \in {"reap", "read"}

\* C7: for a background line no wait is made for any process of the job,
\* and once the last fork is done the shell is back at the top of the read
\* loop.
C7_BackgroundNeverWaits ==
  background =>
    /\ pc \notin {"wait", "cmd_wait"}
    /\ waited = 0
    /\ (Launched \/ (call = "run_command" /\ nforked = 1)) => Returned

\* C7 witness: a background pipeline is launched, the shell is back in its
\* loop, and every process of the job is still alive.
C7_Witness ==
  /\ background /\ Launched /\ Returned
  /\ \A p \in Range(pids) : Alive(p)

\* C8: if the read loop keeps iterating, every child that is a zombie is
\* reaped later.
C8_ZombiesCollected ==
  ([]<>(pc = "reap")) => \A p \in Pids : (Zombie(p) ~> ~Zombie(p))

\* C8 witness: reap_background has collected a child that is no process of
\* the line just run.
C8_Witness ==
  /\ pc = "reap"
  /\ \E p \in Pids :
       /\ procs[p].st = "reaped" /\ procs[p].status # 0
       /\ p \notin Range(pids)

\* C9 as claimed: no child is ever in the read loop; each one ends by exec or
\* by _exit.
C9_ChildNeverInReadLoop ==
  \A p \in Pids : procs[p].st # "escaped"

\* C10: a cd whose os.chdir fails prints the error and leaves the real
\* directory and PWD as they were.
C10_FailedCdChangesNothing ==
  [][pc = "read" =>
       \A line \in CdLines :
         (MainCd(line)
            /\ chdir(cwd, CdTarget(Dispatch(line).cmd.argv)) \notin Dirs) =>
           /\ cwd' = cwd
           /\ PWD' = PWD
           /\ msg' = "cd: OSError"]_vars

\* C10 witness: a cd has just failed in a shell whose real and logical
\* directory are /d/d.
C10_Witness ==
  /\ call = "cd" /\ msg = "cd: OSError"
  /\ cwd = <<"d", "d">> /\ PWD = Logical(<<"d", "d">>)

\* The foreground job has been waited for to its last process and the report
\* is made.
Reported ==
  /\ pc = "reap" /\ ~background
  /\ pids # <<>> /\ waited = Len(pids)

\* C11: after the wait of a foreground job, what is printed follows from the
\* wait status of its last process alone: exit code 0 prints nothing, exit
\* code c # 0 prints c, death by signal s prints 128 + s.
C11_StatusReport ==
  Reported =>
    LET status == procs[pids[Len(pids)]].status IN
      /\ status = WaitExit(0) => (msg = "" /\ exitcode = 0)
      /\ \A c \in 1..MaxCode :
           status = WaitExit(c) =>
             (msg = "Program terminated with exit code" /\ exitcode = c)
      /\ \A s \in 1..MaxSignal, core \in {0, 128} :
           status = s + core =>
             (msg = "Program terminated with exit code" /\ exitcode = 128 + s)

\* C11 witness: the last process of a pipeline died of signal 11 with a core
\* dump (status 139), and 139 is reported.
C11_Witness ==
  /\ Reported /\ call = "run_pipeline"
  /\ procs[pids[2]].status = 139
  /\ exitcode = 139

\* A shell's reading of the quotes of s from s[k] on, q being the quote that
\* is open ("" for none): the quote that is open at the end.  A backslash
\* takes the character after it.
RECURSIVE OpenQuote(_, _, _)
OpenQuote(s, k, q) ==
  IF k > Len(s) THEN q
  ELSE IF s[k] = BS THEN OpenQuote(s, k + 2, q)
  ELSE IF q = ""
    THEN OpenQuote(s, k + 1, IF s[k] \in {DQ, SQ} THEN s[k] ELSE "")
  ELSE OpenQuote(s, k + 1, IF s[k] = q THEN "" ELSE q)

OperatorChars == {"|", "<", ">", "&"}

\* The texts without operators in which a quote is left open, and the lines
\* of words main gets for them.
UnterminatedTexts ==
  {s \in Texts :
     /\ Range(s) \cap OperatorChars = {}
     /\ OpenQuote(s, 1, "") # ""}

UnterminatedLines == {LineOfText(s) : s \in UnterminatedTexts}

SyntaxErrors ==
  SplitErrors \cup {"missing file name after <", "missing file name after >",
                    "unterminated quote"}

\* C12 as claimed: main's pass over a line of text with an unterminated
\* quote ends with a syntax error and calls neither run_command nor
\* run_pipeline.
C12_UnterminatedQuoteRejected ==
  [][pc = "read" =>
       \A line \in UnterminatedLines :
         MainStep(line) =>
           /\ msg' \in SyntaxErrors
           /\ call' \notin {"run_command", "run_pipeline"}
           /\ pc' = "reap"]_vars

\* The texts without backslash that start with a command name, whose quotes
\* are closed and in which an operator character occurs, and occurs inside
\* quotes only.
QuotedOperatorTexts ==
  {s \in Texts :
     /\ BS \notin Range(s)
     /\ Len(s) > 0 /\ s[1] = "a"
     /\ OpenQuote(s, 1, "") = ""
     /\ \E j \in 1..Len(s) : s[j] \in OperatorChars
     /\ \A j \in 1..Len(s) :
          s[j] \in OperatorChars => OpenQuote(SubSeq(s, 1, j - 1), 1, "") # ""}

QuotedOperatorLines == {LineOfText(s) : s \in QuotedOperatorTexts}

\* C13 as claimed: a line of text whose operator characters are all quoted
\* is a plain foreground command: main calls run_command with no
\* redirection, and neither splits a pipeline nor launches in background.
C13_QuotedOperatorIsArgument ==
  [][pc = "read" =>
       \A line \in QuotedOperatorLines :
         MainStep(line) =>
           /\ call' = "run_command"
           /\ ~background'
           /\ cmd'.infile = None /\ cmd'.outfile = None]_vars

\* The texts made of a command, written with "a" and blanks, and a final
\* "&", attached to the last word or not.
TrailingAmpTexts ==
  {s \in Texts :
     /\ Len(s) >= 2 /\ s[Len(s)] = "&"
     /\ \A j \in 1..(Len(s) - 1) : s[j] \in {"a", SP}
     /\ \E j \in 1..(Len(s) - 1) : s[j] = "a"}

TrailingAmpLines == {LineOfText(s) : s \in TrailingAmpTexts}

\* C14 as claimed: a command followed by "&", attached to the last word or
\* after a blank, is run in background.
C14_TrailingAmpIsBackground ==
  [][pc = "read" =>
       \A line \in TrailingAmpLines :
         MainStep(line) => (call' = "run_command" /\ background')]_vars

PipelineSyntaxErrors ==
  {"empty command in pipeline", "missing file name after <",
   "missing file name after >"}

\* C15 as claimed: when a syntax error that run_pipeline raised for a
\* segment reaches the read loop, no process has been forked for the
\* pipeline.
C15_SyntaxErrorBeforeAnyFork ==
  (call = "run_pipeline" /\ Returned /\ msg \in PipelineSyntaxErrors) =>
    (nforked = 0 /\ pids = <<>>)

\* C17: reap_background returns only when no child is a zombie, so that
\* every child that had terminated when it was called has been collected;
\* and it always returns, whatever the children that are alive do.
C17_ReapBackgroundCompletes ==
  /\ [][(pc = "reap" /\ pc' = "read") =>
          \A p \in Pids : procs'[p].st # "zombie"]_vars
  /\ (pc = "reap") ~> (pc = "read")

\* C17 witness: reap_background is about to return; it has collected the
\* first process of a background pipeline while the second is alive.
C17_Witness ==
  /\ pc = "reap" /\ ~Collectible
  /\ background /\ Launched /\ Len(pids) = 2
  /\ procs[pids[1]].st = "reaped"
  /\ Alive(pids[2])

\* Every process of the job has left the child's branch of run_pipeline:
\* none is between its fork and its exec.
ChildrenSetUp == \A p \in Range(pids) : procs[p].st # "forked"

\* C16 as claimed: in a launched pipeline whose processes are all past their
\* set-up, the write end of the pipe between segments k and k+1 is open in
\* the process of segment k only, as its standard output, and the read end
\* in the process of segment k+1 only, as its standard input; the shell
\* holds neither.
C16_PipeEndsOwnedByNeighbours ==
  (Launched /\ ChildrenSetUp /\ Len(pipes) = Len(pids) - 1) =>
    \A k \in 1..Len(pipes) :
      LET r == ReadEnd(pipes[k])
          w == WriteEnd(pipes[k])
      IN /\ {r, w} \cap ShellFds = {}
         /\ \A p \in Pids :
              /\ w \in Held(p) =>
                   (p = pids[k] /\ procs[p].out = w /\ w \notin procs[p].fds)
              /\ r \in Held(p) =>
                   (p = pids[k + 1] /\ procs[p].in = r
                      /\ r \notin procs[p].fds)

RedirectionOps == {"<", ">"}

\* The positions of t that hold the word "<" or ">".
OperatorPositions(t) == {j \in 1..Len(t) : t[j] \in RedirectionOps}

\* The positions of t that are scanned as an operator: in a run of
\* consecutive operator words the first, third, ... are operators and the
\* second, fourth, ... are their file names.
ScannedPositions(t) ==
  {j \in OperatorPositions(t) :
     LET start == CHOOSE q \in 1..j :
                    /\ \A k \in q..j : t[k] \in RedirectionOps
                    /\ q = 1 \/ t[q - 1] \notin RedirectionOps
     IN (j - start) % 2 = 0}

\* t without the positions in ops and the position after each of them.
WithoutOperators(t, ops) ==
  LET keep == {j \in 1..Len(t) : j \notin ops /\ (j - 1) \notin ops}
      nth(n) == CHOOSE j \in keep : Cardinality({k \in keep : k <= j}) = n
  IN [n \in 1..Cardinality(keep) |-> t[nth(n)]]

\* The word after the last position of ops that holds op, None if there is
\* no such position or no word after it.
PathAfterLast(t, ops, op) ==
  LET at == {j \in ops : t[j] = op /\ j < Len(t)} IN
    IF at = {} THEN None
    ELSE t[(CHOOSE j \in at : \A k \in at : k <= j) + 1]

\* What parse_redirections gave for segments[1] is what the positions ops,
\* taken as the operators, say; it raised when a scanned operator is last.
ParsedBy(ops) ==
  LET t == segments[1] IN
    IF Len(t) \in ScannedPositions(t)
    THEN /\ msg = IF t[Len(t)] = "<" THEN "missing file name after <"
                  ELSE "missing file name after >"
         /\ cmd = NoCmd
    ELSE /\ msg = ""
         /\ cmd.argv = WithoutOperators(t, ops)
         /\ cmd.infile = PathAfterLast(t, ops, "<")
         /\ cmd.outfile = PathAfterLast(t, ops, ">")

\* C18 as claimed: the argument vector is the input without every word "<"
\* or ">" and without the word after each, and the paths are the words
\* after the last "<" and the last ">".
C18_AsClaimed ==
  pc = "parsed" => ParsedBy(OperatorPositions(segments[1]))

\* C18, amended: the same with the operators that are scanned as operators,
\* a "<" or ">" taken as a file name being a file name and no operator.
C18_ParseRedirections ==
  pc = "parsed" => ParsedBy(ScannedPositions(segments[1]))

\* C18 witness: `a < > b` is parsed: ">" is the input path and b stays an
\* argument.
C18_Witness ==
  /\ pc = "parsed"
  /\ segments = << <<"a", "<", ">", "b">> >>
  /\ cmd = [argv |-> <<"a", "b">>, infile |-> ">", outfile |-> None]

\* The logical directory does not differ from the real one: PWD is unset, or
\* it names the real working directory.
LogicalIsReal == ~PWD.set \/ PWD.comps = cwd

\* C19 as claimed: a cd typed when PWD is unset or names the real directory
\* leaves PWD, if set, naming the real directory, and a cd that succeeds
\* leaves it set (the file system of the model has no symbolic link).
C19_LogicalFollowsReal ==
  [][pc = "read" =>
       \A line \in CdLines :
         (MainCd(line) /\ LogicalIsReal) =>
           /\ LogicalIsReal'
           /\ msg' = "" => PWD'.set]_vars

\* The ends of the pipes os.pipe gave to the run_pipeline under way.
JobEnds ==
  UNION {{ReadEnd(pipes[k]), WriteEnd(pipes[k])} : k \in 1..Len(pipes)}

\* What holds of a foreground pipeline in its wait and at its return.
ForegroundWaitSafe ==
  /\ pc = "wait" =>
       /\ JobEnds \cap fds = {}
       /\ Cardinality(Range(pids)) = Len(pids)
       /\ \A k \in 1..Len(pids) :
            IF k <= waited THEN procs[pids[k]].st = "reaped"
            ELSE Alive(pids[k]) \/ Zombie(pids[k])
  /\ (Returned /\ Launched /\ ~background) =>
       /\ waited = Len(pids)
       /\ \A p \in Range(pids) : ~Alive(p) /\ ~Zombie(p)

\* C20: while the shell waits for a foreground pipeline it holds no end of
\* the job's pipes, each pid is waited for once and none was collected
\* before its wait; when the commands are filters the wait always finishes,
\* and at the return no process of the job is running or a zombie.
C20_ForegroundWaitFinishes ==
  /\ []ForegroundWaitSafe
  /\ (pc = "wait") ~> (pc = "reap")

\* C20 witness: a foreground pipeline of two filters has returned; the
\* first process ended first and both ended with status 0.
C20_Witness ==
  /\ Returned /\ Launched /\ ~background /\ Len(pids) = 2
  /\ firstDone = pids[1]
  /\ \A p \in Range(pids) : procs[p].st = "reaped" /\ procs[p].status = 0
====
